---- MODULE Spec2Model ----
(***************************************************************************)
(* Model of backend/collision_engine.py (1D two-body collision calculator) *)
(* and of backend/main.py, the HTTP server in front of it.                 *)
(*                                                                         *)
(* Python floats are IEEE-754 binary64 values.  They are modelled bit for  *)
(* bit: a finite value is sign, integer significand and exponent, the      *)
(* significand kept as a little-endian sequence of 15-bit limbs because    *)
(* model values are 32-bit integers.  Every arithmetic operator computes   *)
(* the exact result and rounds it to nearest, ties to even, as the         *)
(* hardware does for +, -, * and /.                                        *)
(***************************************************************************)
EXTENDS Integers, Sequences, FiniteSets, TLC

----------------------------------------------------------------------------
(* Natural numbers of arbitrary size: little-endian limbs, no leading zero *)
(* limb, the empty sequence is 0.                                           *)

Base == 2^15

Max(a, b) == IF a >= b THEN a ELSE b
Min(a, b) == IF a <= b THEN a ELSE b

BLimb(a, i) == IF i >= 1 /\ i <= Len(a) THEN a[i] ELSE 0

RECURSIVE BTrim(_)
BTrim(a) ==
  IF a = <<>> THEN a
  ELSE IF a[Len(a)] = 0 THEN BTrim(SubSeq(a, 1, Len(a) - 1)) ELSE a

RECURSIVE BFromNat(_)
BFromNat(n) == IF n = 0 THEN <<>> ELSE <<n % Base>> \o BFromNat(n \div Base)

RECURSIVE NatBitLen(_)
NatBitLen(n) == IF n = 0 THEN 0 ELSE 1 + NatBitLen(n \div 2)

BBitLen(a) == IF a = <<>> THEN 0 ELSE 15 * (Len(a) - 1) + NatBitLen(a[Len(a)])

RECURSIVE BAddC(_, _, _, _)
BAddC(a, b, i, c) ==
  IF i > Len(a) /\ i > Len(b)
  THEN (IF c = 0 THEN <<>> ELSE <<c>>)
  ELSE <<(BLimb(a, i) + BLimb(b, i) + c) % Base>>
       \o BAddC(a, b, i + 1, (BLimb(a, i) + BLimb(b, i) + c) \div Base)

BAdd(a, b) == BAddC(a, b, 1, 0)

\* a - b for a >= b
RECURSIVE BSubC(_, _, _, _)
BSubC(a, b, i, c) ==
  IF i > Len(a) THEN <<>>
  ELSE IF a[i] - BLimb(b, i) - c < 0
       THEN <<a[i] - BLimb(b, i) - c + Base>> \o BSubC(a, b, i + 1, 1)
       ELSE <<a[i] - BLimb(b, i) - c>> \o BSubC(a, b, i + 1, 0)

BSub(a, b) == BTrim(BSubC(a, b, 1, 0))

\* -1, 0, 1 as a < b, a = b, a > b
RECURSIVE BCmpFrom(_, _, _)
BCmpFrom(a, b, i) ==
  IF i = 0 THEN 0
  ELSE IF a[i] < b[i] THEN -1
  ELSE IF a[i] > b[i] THEN 1
  ELSE BCmpFrom(a, b, i - 1)

BCmp(a, b) ==
  IF Len(a) < Len(b) THEN -1
  ELSE IF Len(a) > Len(b) THEN 1
  ELSE BCmpFrom(a, b, Len(a))

\* a * k + c for 0 <= k, c < Base
RECURSIVE BMulSmallC(_, _, _, _)
BMulSmallC(a, k, i, c) ==
  IF i > Len(a) THEN (IF c = 0 THEN <<>> ELSE <<c>>)
  ELSE <<(a[i] * k + c) % Base>> \o BMulSmallC(a, k, i + 1, (a[i] * k + c) \div Base)

BMulSmall(a, k) == IF k = 0 THEN <<>> ELSE BMulSmallC(a, k, 1, 0)

BZeros(n) == [i \in 1..n |-> 0]

RECURSIVE BMulFrom(_, _, _)
BMulFrom(a, b, i) ==
  IF i > Len(a) THEN <<>>
  ELSE IF a[i] = 0 THEN BMulFrom(a, b, i + 1)
  ELSE BAdd(BZeros(i - 1) \o BMulSmall(b, a[i]), BMulFrom(a, b, i + 1))

BMul(a, b) == IF a = <<>> \/ b = <<>> THEN <<>> ELSE BMulFrom(a, b, 1)

\* a * 2^n
BShl(a, n) ==
  IF a = <<>> \/ n = 0 THEN a
  ELSE BZeros(n \div 15) \o BMulSmall(a, 2^(n % 15))

\* floor(d / 2^r) for 0 < r < 15
BShrBits(d, r) ==
  BTrim([i \in 1..Len(d) |->
           (d[i] \div 2^r) + (BLimb(d, i + 1) % 2^r) * 2^(15 - r)])

\* floor(a / 2^n)
BShr(a, n) ==
  IF n \div 15 >= Len(a) THEN <<>>
  ELSE IF n % 15 = 0 THEN SubSeq(a, n \div 15 + 1, Len(a))
  ELSE BShrBits(SubSeq(a, n \div 15 + 1, Len(a)), n % 15)

\* the low n bits of a are all zero
BLowZero(a, n) ==
  /\ \A i \in 1..Min(n \div 15, Len(a)) : a[i] = 0
  /\ BLimb(a, n \div 15 + 1) % 2^(n % 15) = 0

\* bit i of a, bit 0 the least significant
BBit(a, i) == (BLimb(a, i \div 15 + 1) \div 2^(i % 15)) % 2

BOdd(a) == BLimb(a, 1) % 2 = 1

\* one step of the long division: the quotient limb d of R = r * Base by b
\* is found, and the division goes on with the remainder R - b * d
RECURSIVE BDivLoop(_, _, _, _)
BDivDigit(R, b, lo, hi) ==
  CHOOSE c \in lo..hi : /\ BCmp(BMulSmall(b, c), R) <= 0
                        /\ BCmp(BMulSmall(b, c + 1), R) > 0

BDivNext(R, b, q, n, d) == BDivLoop(BSub(R, BMulSmall(b, d)), b, <<d>> \o q, n - 1)

\* the limb lies between the two estimates that the leading 30 bits Rt of R
\* and the leading 15 bits bt of b give
BDivEstimate(R, b, q, n, Rt, bt) ==
  BDivNext(R, b, q, n,
           BDivDigit(R, b, Rt \div (bt + 1), Min((Rt + 1) \div bt, Base - 1)))

BDivStep(R, b, q, n) ==
  BDivEstimate(R, b, q, n,
               BLimb(R, 5) * 2^22 + BLimb(R, 4) * 2^7 + BLimb(R, 3) \div 2^8,
               (b[4] * Base + b[3]) \div 2^8)

\* floor(r * Base^n / b) and whether the division left a remainder, for a
\* 53-bit b and r < b: <<q, inexact>>, one limb of the quotient per step
BDivLoop(r, b, q, n) ==
  IF n = 0 THEN <<q, r # <<>>>>
  ELSE IF r = <<>> THEN BDivLoop(r, b, <<0>> \o q, n - 1)
  ELSE BDivStep(BZeros(1) \o r, b, q, n)

\* floor(a * 2^60 / b) and whether the division left a remainder, for 53-bit
\* a and b (so a < 2b)
BDiv60(a, b) ==
  IF BCmp(a, b) >= 0 THEN BDivLoop(BSub(a, b), b, <<1>>, 4)
                     ELSE BDivLoop(a, b, <<>>, 4)

----------------------------------------------------------------------------
(* Python float = IEEE-754 binary64.  A finite value is (-1)^s * m * 2^x,   *)
(* canonical: zero is m = <<>>, x = 0; a normal number has a 53-bit m; a    *)
(* subnormal has a shorter m and x = MinExp.  k is "fin", "inf" or "nan".   *)

MantDig == 53
MinExp == -1074
MaxExp == 971

FFin(s, m, x) == [k |-> "fin", s |-> s, m |-> m, x |-> x]
FZero(s) == FFin(s, <<>>, 0)
FInf(s) == [k |-> "inf", s |-> s, m |-> <<>>, x |-> 0]
FNaN == [k |-> "nan", s |-> 0, m |-> <<>>, x |-> 0]

FIsNaN(a) == a.k = "nan"
FIsInf(a) == a.k = "inf"
FIsFinite(a) == a.k = "fin"
FIsZero(a) == a.k = "fin" /\ a.m = <<>>

\* (-1)^s * m * 2^x for a significand m of at most 53 bits: overflow gives
\* infinity, a zero significand gives zero
FPack(s, m, x) ==
  IF m = <<>> THEN FZero(s)
  ELSE IF x > MaxExp THEN FInf(s)
  ELSE FFin(s, m, x)

\* the rounded significand may have grown to 2^53
FCarry(s, m, x) ==
  IF BBitLen(m) > MantDig THEN FPack(s, BShr(m, 1), x + 1) ELSE FPack(s, m, x)

\* round to nearest, ties to even: q is the kept part, half the first bit
\* dropped, rest whether anything below it is set
FRoundUp(s, q, x, half, rest) ==
  FCarry(s, IF half /\ (rest \/ BOdd(q)) THEN BAdd(q, <<1>>) ELSE q, x)

\* d is the number of low bits of M that do not fit
FRoundAt(s, M, x, st, d) ==
  IF d <= 0 THEN FPack(s, BShl(M, 0 - d), x + d)
  ELSE FRoundUp(s, BShr(M, d), x + d,
                BBit(M, d - 1) = 1, st \/ ~BLowZero(M, d - 1))

\* The double nearest to the exact value (-1)^s * (M + f) * 2^x, where
\* 0 <= f < 1 and st says f > 0 (callers pass st only with M of 55 bits or more):
\* round to nearest, ties to even, overflow to infinity, gradual underflow.
FRound(s, M, x, st) ==
  IF M = <<>> THEN FZero(s)
  ELSE FRoundAt(s, M, x, st, Max(BBitLen(M) - MantDig, MinExp - x))

\* d is the number of low bits of M that do not fit
FDirectedAt(s, M, x, up, d) ==
  IF d <= 0 THEN FPack(s, BShl(M, 0 - d), x + d)
  ELSE FCarry(s, IF up /\ ~BLowZero(M, d) THEN BAdd(BShr(M, d), <<1>>)
                                          ELSE BShr(M, d),
              x + d)

\* The double next to the exact value (-1)^s * M * 2^x toward zero (up =
\* FALSE) or away from zero (up = TRUE); the value itself when it is a double.
FDirected(s, M, x, up) ==
  IF M = <<>> THEN FZero(s)
  ELSE FDirectedAt(s, M, x, up, Max(BBitLen(M) - MantDig, MinExp - x))

\* float(n) for an integer n
FromInt(n) == IF n < 0 THEN FRound(1, BFromNat(0 - n), 0, FALSE)
                       ELSE FRound(0, BFromNat(n), 0, FALSE)

\* 2.0 ** n for MinExp <= n < 1024
FTwoPow(n) == FRound(0, <<1>>, n, FALSE)

FNeg(a) == IF FIsNaN(a) THEN a ELSE [a EXCEPT !.s = 1 - a.s]
FAbs(a) == IF FIsNaN(a) THEN a ELSE [a EXCEPT !.s = 0]

\* hi + lo for hi.x - lo.x <= 60, A = hi.m shifted to lo's exponent,
\* c the comparison of A with lo.m
FAddAligned(hi, lo, A, c) ==
  IF hi.s # lo.s /\ c = 0 THEN FZero(0)
  ELSE FRound(IF hi.s = lo.s \/ c > 0 THEN hi.s ELSE lo.s,
              IF hi.s = lo.s THEN BAdd(A, lo.m)
              ELSE IF c > 0 THEN BSub(A, lo.m) ELSE BSub(lo.m, A),
              lo.x, FALSE)

\* hi + lo for finite nonzero hi and lo, hi.x >= lo.x
FAddOrdered(hi, lo) ==
  IF hi.x - lo.x > 60
  THEN \* |lo| is below an eighth of hi's last place: it only makes the sum inexact
       FRound(hi.s,
              IF hi.s = lo.s THEN BShl(hi.m, 3) ELSE BSub(BShl(hi.m, 3), <<1>>),
              hi.x - 3, TRUE)
  ELSE FAddAligned(hi, lo, BShl(hi.m, hi.x - lo.x),
                   BCmp(BShl(hi.m, hi.x - lo.x), lo.m))

\* a + b
FAdd(a, b) ==
  IF FIsNaN(a) \/ FIsNaN(b) THEN FNaN
  ELSE IF FIsInf(a) THEN (IF FIsInf(b) /\ a.s # b.s THEN FNaN ELSE a)
  ELSE IF FIsInf(b) THEN b
  ELSE IF FIsZero(a) /\ FIsZero(b) THEN FZero(IF a.s = 1 /\ b.s = 1 THEN 1 ELSE 0)
  ELSE IF FIsZero(a) THEN b
  ELSE IF FIsZero(b) THEN a
  ELSE IF a.x >= b.x THEN FAddOrdered(a, b)
  ELSE FAddOrdered(b, a)

\* a - b
FSub(a, b) == FAdd(a, FNeg(b))

\* a * b
FMul(a, b) ==
  IF FIsNaN(a) \/ FIsNaN(b) THEN FNaN
  ELSE IF FIsInf(a) \/ FIsInf(b)
       THEN (IF FIsZero(a) \/ FIsZero(b) THEN FNaN ELSE FInf((a.s + b.s) % 2))
  ELSE FRound((a.s + b.s) % 2, BMul(a.m, b.m), a.x + b.x, FALSE)

\* the quotient of two finite nonzero doubles: qr is <<floor of the quotient
\* of the significands scaled by 2^60, inexact>>
FDivRound(s, x, qr) == FRound(s, BTrim(qr[1]), x, qr[2])

\* la and lb are the shifts that make the significands 53 bits long
FDivNorm(a, b, la, lb) ==
  FDivRound((a.s + b.s) % 2, (a.x - la) - (b.x - lb) - 60,
            BDiv60(BShl(a.m, la), BShl(b.m, lb)))

\* a / b for b # 0 (Python raises ZeroDivisionError before dividing by zero)
FDiv(a, b) ==
  IF FIsNaN(a) \/ FIsNaN(b) THEN FNaN
  ELSE IF FIsInf(a) THEN (IF FIsInf(b) THEN FNaN ELSE FInf((a.s + b.s) % 2))
  ELSE IF FIsInf(b) \/ FIsZero(a) THEN FZero((a.s + b.s) % 2)
  ELSE FDivNorm(a, b, MantDig - BBitLen(a.m), MantDig - BBitLen(b.m))

\* the sign of a: -1, 0 or 1
FSign(a) == IF FIsZero(a) THEN 0 ELSE 1 - 2 * a.s

\* -1, 0, 1 as |a| < |b|, |a| = |b|, |a| > |b|, for finite a and b whose
\* leading bits are at ea and eb
FCmpMag(a, b, ea, eb) ==
  IF ea < eb THEN -1
  ELSE IF ea > eb THEN 1
  ELSE IF a.x >= b.x THEN BCmp(BShl(a.m, a.x - b.x), b.m)
  ELSE BCmp(a.m, BShl(b.m, b.x - a.x))

\* -1, 0, 1 as a < b, a == b, a > b, for a and b not NaN
FCmp(a, b) ==
  IF FSign(a) < FSign(b) THEN -1
  ELSE IF FSign(a) > FSign(b) THEN 1
  ELSE IF FSign(a) = 0 THEN 0
  ELSE IF FIsInf(a) THEN (IF FIsInf(b) THEN 0 ELSE FSign(a))
  ELSE IF FIsInf(b) THEN 0 - FSign(a)
  ELSE FSign(a) * FCmpMag(a, b, a.x + BBitLen(a.m), b.x + BBitLen(b.m))

\* Python's comparison operators: every comparison with NaN is False
FEq(a, b) == ~FIsNaN(a) /\ ~FIsNaN(b) /\ FCmp(a, b) = 0
FLt(a, b) == ~FIsNaN(a) /\ ~FIsNaN(b) /\ FCmp(a, b) < 0
FLe(a, b) == ~FIsNaN(a) /\ ~FIsNaN(b) /\ FCmp(a, b) <= 0

----------------------------------------------------------------------------
(* collision_engine.py                                                      *)

Zero == FromInt(0)
One == FromInt(1)
Half == FDiv(One, FromInt(2))
Ten == FromInt(10)

\* a local that is not bound yet, a field that was never filled in
FNone == [k |-> "none", s |-> 0, m |-> <<>>, x |-> 0]

\* class ParticleState
ParticleState(mass, velocity, momentum, kinetic_energy) ==
  [mass |-> mass, velocity |-> velocity, momentum |-> momentum,
   kinetic_energy |-> kinetic_energy]

NoState == ParticleState(FNone, FNone, FNone, FNone)

\* class CollisionResult
CollisionResult(p1i, p2i, p1f, p2f, tmi, tmf, tki, tkf, kec, e) ==
  [particle1_initial |-> p1i, particle2_initial |-> p2i,
   particle1_final |-> p1f, particle2_final |-> p2f,
   total_momentum_initial |-> tmi, total_momentum_final |-> tmf,
   total_kinetic_energy_initial |-> tki, total_kinetic_energy_final |-> tkf,
   kinetic_energy_change |-> kec, coefficient_of_restitution |-> e]

NoResult ==
  CollisionResult(NoState, NoState, NoState, NoState,
                  FNone, FNone, FNone, FNone, FNone, FNone)

MassError == "ValueError: Masses must be positive"
RestitutionError == "ValueError: Coefficient of restitution must be between 0 and 1"
OverflowError == "OverflowError: (34, 'Numerical result out of range')"

\* mass * velocity
calculate_momentum(mass, velocity) == FMul(mass, velocity)

\* velocity ** 2 is the C library's pow(velocity, 2.0), which need not be
\* correctly rounded: the results a build can give are the two doubles that
\* enclose the exact square (that square itself when it is a double).
PowOutcomes(velocity) ==
  IF FIsFinite(velocity)
  THEN {FDirected(0, BMul(velocity.m, velocity.m), 2 * velocity.x, up) :
          up \in BOOLEAN}
  ELSE {FMul(velocity, velocity)}

\* pow is a function: a build gives one result for one argument.  table holds
\* the results seen so far, as pairs <<argument, result>>.
Pow(table, velocity) ==
  IF \E t \in table : t[1] = velocity
  THEN {t[2] : t \in {u \in table : u[1] = velocity}}
  ELSE PowOutcomes(velocity)

\* float.__pow__ raises OverflowError when a finite base gives an infinite
\* result; an underflow to zero is no error
PowRaises(velocity, squared) == FIsFinite(velocity) /\ FIsInf(squared)

\* the kinetic energy computed without the factor 0.5
calculate_kinetic_energy_doubled(mass, squared) == FMul(mass, squared)

\* 0.5 * mass * velocity ** 2, which Python groups (0.5 * mass) * (velocity ** 2);
\* squared is the value of velocity ** 2
calculate_kinetic_energy(mass, squared) == FMul(FMul(Half, mass), squared)

\* create_particle_state; squared is the value of velocity ** 2
create_particle_state(mass, velocity, squared) ==
  ParticleState(mass, velocity,
                calculate_momentum(mass, velocity),
                calculate_kinetic_energy(mass, squared))

\* the energy change taken as initial minus final
kinetic_energy_change_reversed(total_ke_final, total_ke_initial) ==
  FSub(total_ke_initial, total_ke_final)

\* ke_change = total_ke_final - total_ke_initial
kinetic_energy_change(total_ke_final, total_ke_initial) ==
  FSub(total_ke_final, total_ke_initial)

\* if m1 <= 0 or m2 <= 0: raise ValueError("Masses must be positive")
InvalidMass(m1, m2) == FLe(m1, Zero) \/ FLe(m2, Zero)

\* if not (0 <= e <= 1): raise ValueError("Coefficient of restitution ...")
InvalidRestitution(e) == ~(FLe(Zero, e) /\ FLe(e, One))

\* v1_final computed with the first body's own mass in the restitution term
V1FinalOwnMass(m1, v1, m2, v2, e) ==
  LET total_mass == FAdd(m1, m2)
      momentum_sum == FAdd(FMul(m1, v1), FMul(m2, v2))
      relative_velocity == FSub(v1, v2)
  IN  FDiv(FSub(momentum_sum, FMul(FMul(m1, e), relative_velocity)), total_mass)

\* v1_final computed with the restitution term added instead of subtracted
V1FinalAdded(m1, v1, m2, v2, e) ==
  LET total_mass == FAdd(m1, m2)
      momentum_sum == FAdd(FMul(m1, v1), FMul(m2, v2))
      relative_velocity == FSub(v1, v2)
  IN  FDiv(FAdd(momentum_sum, FMul(FMul(m2, e), relative_velocity)), total_mass)

\* v1_final computed without the restitution term
V1FinalNoRestitution(m1, v1, m2, v2, e) ==
  LET total_mass == FAdd(m1, m2)
      momentum_sum == FAdd(FMul(m1, v1), FMul(m2, v2))
  IN  FDiv(momentum_sum, total_mass)

\* v1_final = (momentum_sum - m2 * e * relative_velocity) / total_mass
V1Final(m1, v1, m2, v2, e) ==
  LET total_mass == FAdd(m1, m2)
      momentum_sum == FAdd(FMul(m1, v1), FMul(m2, v2))
      relative_velocity == FSub(v1, v2)
  IN  FDiv(FSub(momentum_sum, FMul(FMul(m2, e), relative_velocity)), total_mass)

\* v2_final computed with the restitution term subtracted instead of added
V2FinalSubtracted(m1, v1, m2, v2, e) ==
  LET total_mass == FAdd(m1, m2)
      momentum_sum == FAdd(FMul(m1, v1), FMul(m2, v2))
      relative_velocity == FSub(v1, v2)
  IN  FDiv(FSub(momentum_sum, FMul(FMul(m1, e), relative_velocity)), total_mass)

\* the second body keeping the velocity it had
V2FinalKept(m1, v1, m2, v2, e) == v2

\* v2_final = (momentum_sum + m1 * e * relative_velocity) / total_mass
V2Final(m1, v1, m2, v2, e) ==
  LET total_mass == FAdd(m1, m2)
      momentum_sum == FAdd(FMul(m1, v1), FMul(m2, v2))
      relative_velocity == FSub(v1, v2)
  IN  FDiv(FAdd(momentum_sum, FMul(FMul(m1, e), relative_velocity)), total_mass)

\* calculate_collision_velocities: the error raised ("none" when it returns)
\* and the tuple returned (total_mass is positive once the masses are valid,
\* so the division never raises)
calculate_collision_velocities(m1, v1, m2, v2, e) ==
  IF InvalidMass(m1, m2)
  THEN [error |-> MassError, v1_final |-> FNone, v2_final |-> FNone]
  ELSE IF InvalidRestitution(e)
  THEN [error |-> RestitutionError, v1_final |-> FNone, v2_final |-> FNone]
  ELSE [error |-> "none",
        v1_final |-> V1Final(m1, v1, m2, v2, e),
        v2_final |-> V2Final(m1, v1, m2, v2, e)]

----------------------------------------------------------------------------
(* Inputs.  The callers' arguments are finite doubles: a small grid inside  *)
(* the range the HTTP layer admits (mass in (0, 2], |velocity| <= 20), the   *)
(* masses 0 and below, the smallest positive mass, restitutions around      *)
(* [0, 1], and velocities of large magnitude.                               *)

MaxMass == 2
MaxVel == 1
EDen == 2
NumProcs == 2

\* 5e-324, the smallest double above 0
TinyMass == FTwoPow(MinExp)

\* -0.1, 0.0, 0.1, 0.2, ...
Masses == {FDiv(FromInt(i), Ten) : i \in -1..MaxMass}

\* ..., -0.3, 0.0, 0.3, ...
GridVelocities == {FDiv(FromInt(3 * j), Ten) : j \in -1..MaxVel}

\* 0.29999999999999993, the double next below 0.3
NearVel == FSub(FDiv(FromInt(3), Ten), FTwoPow(-54))
\* 1e7
LargeVel == FromInt(10000000)
\* 2.0 ** 1023 = 8.98846567431158e+307
HugeVel == FTwoPow(1023)

Velocities == GridVelocities \cup {NearVel, LargeVel, HugeVel, FNeg(HugeVel)}

\* -1/EDen, 0, 1/EDen, ..., 1, (EDen + 1)/EDen
Restitutions == {FDiv(FromInt(k), FromInt(EDen)) : k \in -1..(EDen + 1)}

MkArgs(m1, v1, m2, v2, e) == [m1 |-> m1, v1 |-> v1, m2 |-> m2, v2 |-> v2, e |-> e]

NoArgs == MkArgs(FNone, FNone, FNone, FNone, FNone)

\* a first body of the smallest positive mass meeting one like it or one of
\* mass 0.1, at the velocities of the grid
TinyArgs == {MkArgs(TinyMass, v1, m2, v2, e) :
               v1 \in GridVelocities, m2 \in {TinyMass, FDiv(One, Ten)},
               v2 \in GridVelocities, e \in Restitutions}

Args == {MkArgs(m1, v1, m2, v2, e) :
           m1 \in Masses, v1 \in Velocities, m2 \in Masses, v2 \in Velocities,
           e \in Restitutions}
          \cup TinyArgs

Procs == 1..NumProcs

\* the arguments of the invocations that run interleaved
ConcArgs == {a \in Args : /\ a.m1 = FDiv(One, Ten)
                          /\ a.m2 = FDiv(FromInt(2), Ten)
                          /\ a.v1 = FDiv(FromInt(3), Ten)
                          /\ a.v2 = FDiv(FromInt(-3), Ten)
                          /\ a.e \in {Zero, One,
                                      FDiv(FromInt(EDen + 1), FromInt(EDen))}}

----------------------------------------------------------------------------
(* main.py.  A str is the sequence of its characters, each a one-character *)
(* string; "EN DASH" stands for the character U+2013.                       *)

Upper == <<"A", "B", "C", "D", "E", "F", "G", "H", "I", "J", "K", "L", "M",
           "N", "O", "P", "Q", "R", "S", "T", "U", "V", "W", "X", "Y", "Z">>
Lower == <<"a", "b", "c", "d", "e", "f", "g", "h", "i", "j", "k", "l", "m",
           "n", "o", "p", "q", "r", "s", "t", "u", "v", "w", "x", "y", "z">>

\* the lower-case form of one character
LowerChar(c) ==
  IF \E i \in 1..Len(Upper) : Upper[i] = c
  THEN Lower[CHOOSE i \in 1..Len(Upper) : Upper[i] = c]
  ELSE c

\* str.lower()
str_lower(s) == [i \in 1..Len(s) |-> LowerChar(s[i])]

\* str.replace(old, new) for one-character old and new
str_replace(s, old, new) == [i \in 1..Len(s) |-> IF s[i] = old THEN new ELSE s[i]]

\* sub in s
str_contains(s, sub) ==
  \E i \in 0..(Len(s) - Len(sub)) : SubSeq(s, i + 1, i + Len(sub)) = sub

Str_elastic == <<"e", "l", "a", "s", "t", "i", "c">>
Str_inelastic == <<"i", "n", "e", "l", "a", "s", "t", "i", "c">>

\* n / d as the float literal that writes it in decimal
Dec(n, d) == FDiv(FromInt(n), FromInt(d))

\* the largest mass and the largest speed the HTTP layer admits
MaxApiMass == FromInt(2)
MaxApiSpeed == FromInt(20)

\* class ParticleData, built by the module itself
ParticleData(mass, velocity) == [mass |-> mass, velocity |-> velocity]

\* class PresetScenario
PresetScenario(name, description, particle1, particle2, e, collision_type) ==
  [name |-> name, description |-> description,
   particle1 |-> particle1, particle2 |-> particle2,
   coefficient_of_restitution |-> e, collision_type |-> collision_type]

PRESET_SCENARIOS ==
  <<
    PresetScenario(<<"E", "q", "u", "a", "l", " ", "M", "a", "s", "s", " ",
                     "EN DASH", " ", "H", "e", "a", "d", "-", "O", "n">>,
                   "Two particles of equal mass colliding head-on",
                   ParticleData(One, FromInt(5)), ParticleData(One, FromInt(-5)),
                   One, Str_elastic),
    PresetScenario(<<"H", "e", "a", "v", "y", " ", "v", "s", " ", "L", "i", "g",
                     "h", "t">>,
                   "Heavy particle colliding with lighter one",
                   ParticleData(FromInt(2), FromInt(3)), ParticleData(Half, Zero),
                   One, Str_elastic),
    PresetScenario(<<"P", "e", "r", "f", "e", "c", "t", "l", "y", " ", "I", "n",
                     "e", "l", "a", "s", "t", "i", "c">>,
                   "Two particles sticking together after collision",
                   ParticleData(Dec(15, 10), FromInt(8)), ParticleData(One, FromInt(-2)),
                   Zero, Str_inelastic),
    PresetScenario(<<"P", "a", "r", "t", "i", "a", "l", " ", "I", "n", "e", "l",
                     "a", "s", "t", "i", "c">>,
                   "Collision with some energy loss",
                   ParticleData(Dec(12, 10), FromInt(6)), ParticleData(Dec(8, 10), FromInt(-3)),
                   Half, Str_inelastic),
    PresetScenario(<<"S", "t", "a", "t", "i", "o", "n", "a", "r", "y", " ", "T",
                     "a", "r", "g", "e", "t">>,
                   "Moving particle hits stationary target",
                   ParticleData(One, FromInt(10)), ParticleData(Dec(15, 10), Zero),
                   One, Str_elastic)
  >>

\* A JSON object is the set of the keys it gives and a value for each key
\* of the schema, FNone or the empty str under a key it does not give.
ParticleBody(given, mass, velocity) ==
  [given |-> given, mass |-> mass, velocity |-> velocity]

NoParticle == ParticleBody({}, FNone, FNone)

RequestBody(given, particle1, particle2, e, collision_type) ==
  [given |-> given, particle1 |-> particle1, particle2 |-> particle2,
   coefficient_of_restitution |-> e, collision_type |-> collision_type]

NoBody == RequestBody({}, NoParticle, NoParticle, FNone, <<>>)

\* ParticleData without the lower bound of the mass
ValidParticleDataAnyLowMass(b) ==
  /\ "mass" \in b.given
  /\ FLe(b.mass, MaxApiMass)
  /\ "velocity" \in b.given
  /\ FLe(FNeg(MaxApiSpeed), b.velocity) /\ FLe(b.velocity, MaxApiSpeed)

\* ParticleData: mass = Field(..., gt=0, le=2.0),
\* velocity = Field(..., ge=-20.0, le=20.0); ... marks a required field
ValidParticleData(b) ==
  /\ "mass" \in b.given
  /\ FLt(Zero, b.mass) /\ FLe(b.mass, MaxApiMass)
  /\ "velocity" \in b.given
  /\ FLe(FNeg(MaxApiSpeed), b.velocity) /\ FLe(b.velocity, MaxApiSpeed)

\* SimulationRequest: two required particles,
\* coefficient_of_restitution = Field(1.0, ge=0.0, le=1.0), collision_type a
\* str with a default
ValidSimulationRequest(b) ==
  /\ "particle1" \in b.given /\ ValidParticleData(b.particle1)
  /\ "particle2" \in b.given /\ ValidParticleData(b.particle2)
  /\ "coefficient_of_restitution" \in b.given =>
       FLe(Zero, b.coefficient_of_restitution) /\ FLe(b.coefficient_of_restitution, One)

\* the SimulationRequest parsed from a valid body: absent fields take their
\* defaults, 1.0 and "elastic"
SimulationRequest(b) ==
  [particle1 |-> ParticleData(b.particle1.mass, b.particle1.velocity),
   particle2 |-> ParticleData(b.particle2.mass, b.particle2.velocity),
   coefficient_of_restitution |->
     IF "coefficient_of_restitution" \in b.given
     THEN b.coefficient_of_restitution ELSE One,
   collision_type |->
     IF "collision_type" \in b.given THEN b.collision_type ELSE Str_elastic]

\* lines 184-190 comparing collision_type as it was sent, without lower()
EndpointRestitutionCaseSensitive(request) ==
  IF request.collision_type = Str_elastic THEN One
  ELSE IF request.collision_type = Str_inelastic THEN Zero
  ELSE request.coefficient_of_restitution

\* simulate_collision_endpoint, lines 184-190: the restitution handed to the
\* engine
EndpointRestitution(request) ==
  IF str_lower(request.collision_type) = Str_elastic THEN One
  ELSE IF str_lower(request.collision_type) = Str_inelastic THEN Zero
  ELSE request.coefficient_of_restitution

\* the masses and velocities of the bodies posted: below, at and above the
\* ends of the admitted ranges
ApiMasses == {Dec(-1, 10), Zero, Dec(1, 20), MaxApiMass, Dec(21, 10)}
ApiVelocities == {FromInt(-21), FromInt(-20), FromInt(20), FromInt(25)}

ParticleBodies ==
  {ParticleBody({"mass", "velocity"}, m, v) : m \in ApiMasses, v \in ApiVelocities}
    \cup {ParticleBody({"mass"}, One, FNone), ParticleBody({"velocity"}, FNone, Zero)}

CollisionTypes ==
  {Str_elastic, <<"E", "L", "A", "S", "T", "I", "C">>,
   Str_inelastic, <<"I", "n", "e", "l", "a", "s", "t", "i", "c">>,
   <<"c", "u", "s", "t", "o", "m">>}

\* the body that posts a preset's own particles, coefficient and type
PresetBody(preset) ==
  RequestBody({"particle1", "particle2", "coefficient_of_restitution",
               "collision_type"},
              ParticleBody({"mass", "velocity"},
                           preset.particle1.mass, preset.particle1.velocity),
              ParticleBody({"mass", "velocity"},
                           preset.particle2.mass, preset.particle2.velocity),
              preset.coefficient_of_restitution, preset.collision_type)

\* the bodies posted to /simulate
Bodies ==
  {RequestBody({"particle1" : x \in {p1} \ {NoParticle}}
                 \cup {"particle2" : x \in {p2} \ {NoParticle}}
                 \cup {"coefficient_of_restitution" : x \in {e} \ {FNone}}
                 \cup {"collision_type" : x \in {t} \ {<<>>}},
               p1, p2, e, t) :
     p1 \in ParticleBodies \cup {NoParticle},
     p2 \in ParticleBodies \cup {NoParticle},
     e \in Restitutions \cup {FNone},
     t \in CollisionTypes \cup {<<>>}}
    \cup {PresetBody(PRESET_SCENARIOS[i]) : i \in 1..Len(PRESET_SCENARIOS)}

----------------------------------------------------------------------------
(* The state: one Python frame per invocation in progress.  The module has  *)
(* no global that a call writes; everything a call binds is a local.  The  *)
(* only thing invocations have in common is the C library they run on.     *)

VARIABLES
  pc,      \* pc[p]: "idle", the line about to run, "returned" or "raised"
  fn,      \* fn[p]: the function the caller invoked
  args,    \* args[p]: its arguments
  frame,   \* frame[p]: the locals bound so far
  result,  \* result[p]: the CollisionResult returned
  error,   \* error[p]: the exception that left the function, or "none"
  libm,    \* the results pow has given to the invocations in progress
  request, \* request[p]: the HTTP request the server is handling for p
  response,\* response[p]: the HTTP response it gave
  presets  \* the module global PRESET_SCENARIOS

vars == <<pc, fn, args, frame, result, error, libm, request, response, presets>>

\* what belongs to the server of main.py; the engine never touches it
http == <<request, response, presets>>

\* a request: its endpoint, and the JSON body or the path parameter
Request(endpoint, body, preset_name) ==
  [endpoint |-> endpoint, body |-> body, preset_name |-> preset_name]

NoRequest == Request("none", NoBody, <<>>)

NoPreset ==
  PresetScenario(<<>>, "", ParticleData(FNone, FNone), ParticleData(FNone, FNone),
                 FNone, <<>>)

\* a response: its status code and, as the endpoint has them, the
\* SimulationResponse, the PresetScenario, the list of them, the detail of
\* an HTTPException and the exception it was made from
Response(status, simulation, preset, list, detail, exc) ==
  [status |-> status, simulation |-> simulation, preset |-> preset,
   presets |-> list, detail |-> detail, exception |-> exc]

NoResponse == Response(0, NoResult, NoPreset, <<>>, <<>>, "none")

EmptyFrame ==
  [particle1_initial |-> NoState, particle2_initial |-> NoState,
   total_momentum_initial |-> FNone, total_ke_initial |-> FNone,
   v1_final |-> FNone, v2_final |-> FNone,
   particle1_final |-> NoState, particle2_final |-> NoState,
   total_momentum_final |-> FNone, total_ke_final |-> FNone,
   ke_change |-> FNone]

Init ==
  /\ pc = [p \in Procs |-> "idle"]
  /\ fn = [p \in Procs |-> "none"]
  /\ args = [p \in Procs |-> NoArgs]
  /\ frame = [p \in Procs |-> EmptyFrame]
  /\ result = [p \in Procs |-> NoResult]
  /\ error = [p \in Procs |-> "none"]
  /\ libm = {}
  /\ request = [p \in Procs |-> NoRequest]
  /\ response = [p \in Procs |-> NoResponse]
  /\ presets = PRESET_SCENARIOS

\* every invocation reading the locals of the first one, as if they were
\* module globals
LocalsShared(p) == frame[1]

\* the locals invocation p reads and writes: its own frame
Locals(p) == frame[p]

\* a caller invokes simulate_collision(m1, v1, m2, v2, e)
CallSimulate(p, a) ==
  /\ pc[p] = "idle"
  /\ pc' = [pc EXCEPT ![p] = "L148"]
  /\ fn' = [fn EXCEPT ![p] = "simulate_collision"]
  /\ args' = [args EXCEPT ![p] = a]
  /\ UNCHANGED <<frame, result, error, libm, http>>

\* the exception exc leaves invocation p
Raise(p, exc) ==
  /\ pc' = [pc EXCEPT ![p] = "raised"]
  /\ error' = [error EXCEPT ![p] = exc]

\* invocation p goes on at line, its locals now f
Goto(p, line, f) ==
  /\ pc' = [pc EXCEPT ![p] = line]
  /\ frame' = [frame EXCEPT ![p] = f]
  /\ UNCHANGED error

\* lines 148-153 with the two states p1 and p2 created
InitialTotals(f, p1, p2) ==
  [f EXCEPT !.particle1_initial = p1,
            !.particle2_initial = p2,
            !.total_momentum_initial = FAdd(p1.momentum, p2.momentum),
            !.total_ke_initial = FAdd(p1.kinetic_energy, p2.kinetic_energy)]

\* lines 148-153 where v1 ** 2 is q1 and v2 ** 2 is q2: the first
\* create_particle_state that overflows ends the invocation
InitialStatesWith(p, a, q1, q2) ==
  IF PowRaises(a.v1, q1)
  THEN /\ Raise(p, OverflowError)
       /\ libm' = libm \cup {<<a.v1, q1>>}
       /\ UNCHANGED frame
  ELSE IF PowRaises(a.v2, q2)
  THEN /\ Raise(p, OverflowError)
       /\ libm' = libm \cup {<<a.v1, q1>>, <<a.v2, q2>>}
       /\ frame' = [frame EXCEPT ![p] =
            [Locals(p) EXCEPT !.particle1_initial =
                                 create_particle_state(a.m1, a.v1, q1)]]
  ELSE /\ Goto(p, "L156",
               InitialTotals(Locals(p), create_particle_state(a.m1, a.v1, q1),
                             create_particle_state(a.m2, a.v2, q2)))
       /\ libm' = libm \cup {<<a.v1, q1>>, <<a.v2, q2>>}

\* simulate_collision, lines 148-153: the two initial states and their sums
InitialStates(p) ==
  /\ pc[p] = "L148"
  /\ \E q1 \in Pow(libm, args[p].v1) :
       \E q2 \in Pow(libm \cup {<<args[p].v1, q1>>}, args[p].v2) :
         InitialStatesWith(p, args[p], q1, q2)
  /\ UNCHANGED <<fn, args, result, http>>

\* line 156 with r what calculate_collision_velocities raised or returned
ComputeVelocitiesWith(p, r) ==
  IF r.error # "none"
  THEN Raise(p, r.error) /\ UNCHANGED frame
  ELSE Goto(p, "L159",
            [Locals(p) EXCEPT !.v1_final = r.v1_final, !.v2_final = r.v2_final])

\* simulate_collision, line 156: the call of calculate_collision_velocities,
\* whose exception propagates
ComputeVelocities(p) ==
  /\ pc[p] = "L156"
  /\ ComputeVelocitiesWith(p,
       calculate_collision_velocities(args[p].m1, args[p].v1,
                                      args[p].m2, args[p].v2, args[p].e))
  /\ UNCHANGED <<fn, args, result, libm, http>>

\* lines 163-167 with the total final kinetic energy ke
FinalChange(f, ke) ==
  [f EXCEPT !.total_ke_final = ke,
            !.ke_change = kinetic_energy_change(ke, f.total_ke_initial)]

\* lines 159-167 with the two states p1 and p2 created
FinalTotals(f, p1, p2) ==
  FinalChange([f EXCEPT !.particle1_final = p1,
                        !.particle2_final = p2,
                        !.total_momentum_final = FAdd(p1.momentum, p2.momentum)],
              FAdd(p1.kinetic_energy, p2.kinetic_energy))

\* lines 159-167 where v1_final ** 2 is q1 and v2_final ** 2 is q2
FinalStatesWith(p, a, f, q1, q2) ==
  IF PowRaises(f.v1_final, q1)
  THEN /\ Raise(p, OverflowError)
       /\ libm' = libm \cup {<<f.v1_final, q1>>}
       /\ UNCHANGED frame
  ELSE IF PowRaises(f.v2_final, q2)
  THEN /\ Raise(p, OverflowError)
       /\ libm' = libm \cup {<<f.v1_final, q1>>, <<f.v2_final, q2>>}
       /\ frame' = [frame EXCEPT ![p] =
            [f EXCEPT !.particle1_final =
                         create_particle_state(a.m1, f.v1_final, q1)]]
  ELSE /\ Goto(p, "L169",
               FinalTotals(f, create_particle_state(a.m1, f.v1_final, q1),
                           create_particle_state(a.m2, f.v2_final, q2)))
       /\ libm' = libm \cup {<<f.v1_final, q1>>, <<f.v2_final, q2>>}

\* simulate_collision, lines 159-167: the two final states, their sums and
\* the energy change
FinalStates(p) ==
  /\ pc[p] = "L159"
  /\ \E q1 \in Pow(libm, Locals(p).v1_final) :
       \E q2 \in Pow(libm \cup {<<Locals(p).v1_final, q1>>}, Locals(p).v2_final) :
         FinalStatesWith(p, args[p], Locals(p), q1, q2)
  /\ UNCHANGED <<fn, args, result, http>>

\* the CollisionResult built from the locals f
ResultOf(f, e) ==
  CollisionResult(f.particle1_initial, f.particle2_initial,
                  f.particle1_final, f.particle2_final,
                  f.total_momentum_initial, f.total_momentum_final,
                  f.total_ke_initial, f.total_ke_final,
                  f.ke_change, e)

\* simulate_collision, lines 169-180: return CollisionResult(...)
Return(p) ==
  /\ pc[p] = "L169"
  /\ pc' = [pc EXCEPT ![p] = "returned"]
  /\ result' = [result EXCEPT ![p] = ResultOf(Locals(p), args[p].e)]
  /\ UNCHANGED <<fn, args, frame, error, libm, http>>

\* a caller invokes calculate_collision_velocities(m1, v1, m2, v2, e) itself
CallVelocities(p, a) ==
  /\ pc[p] = "idle"
  /\ pc' = [pc EXCEPT ![p] = "L114"]
  /\ fn' = [fn EXCEPT ![p] = "calculate_collision_velocities"]
  /\ args' = [args EXCEPT ![p] = a]
  /\ UNCHANGED <<frame, result, error, libm, http>>

\* lines 114-128 with r what the function raises or returns
VelocitiesBodyWith(p, r) ==
  IF r.error # "none"
  THEN Raise(p, r.error) /\ UNCHANGED frame
  ELSE Goto(p, "returned",
            [Locals(p) EXCEPT !.v1_final = r.v1_final, !.v2_final = r.v2_final])

\* calculate_collision_velocities, lines 114-128: it raises or returns the
\* tuple (v1_final, v2_final)
VelocitiesBody(p) ==
  /\ pc[p] = "L114"
  /\ VelocitiesBodyWith(p,
       calculate_collision_velocities(args[p].m1, args[p].v1,
                                      args[p].m2, args[p].v2, args[p].e))
  /\ UNCHANGED <<fn, args, result, libm, http>>

\* the caller has taken the result or the exception; the frame is gone.
\* What pow returned is remembered as long as an invocation is in progress.
Finish(p) ==
  /\ pc[p] \in {"returned", "raised"}
  /\ pc' = [pc EXCEPT ![p] = "idle"]
  /\ fn' = [fn EXCEPT ![p] = "none"]
  /\ args' = [args EXCEPT ![p] = NoArgs]
  /\ frame' = [frame EXCEPT ![p] = EmptyFrame]
  /\ result' = [result EXCEPT ![p] = NoResult]
  /\ error' = [error EXCEPT ![p] = "none"]
  /\ libm' = IF \A q \in Procs \ {p} : pc[q] = "idle" THEN {} ELSE libm
  /\ UNCHANGED http

\* one caller, one invocation at a time, any arguments
Next ==
  \/ \E a \in Args : CallSimulate(1, a)
  \/ \E a \in Args : CallVelocities(1, a)
  \/ InitialStates(1)
  \/ ComputeVelocities(1)
  \/ FinalStates(1)
  \/ Return(1)
  \/ VelocitiesBody(1)
  \/ Finish(1)

Spec == Init /\ [][Next]_vars

\* NumProcs callers whose invocations interleave line by line
NextConc ==
  \E p \in Procs :
    \/ \E a \in ConcArgs : CallSimulate(p, a)
    \/ \E a \in ConcArgs : CallVelocities(p, a)
    \/ InitialStates(p)
    \/ ComputeVelocities(p)
    \/ FinalStates(p)
    \/ Return(p)
    \/ VelocitiesBody(p)
    \/ Finish(p)

SpecConc == Init /\ [][NextConc]_vars

----------------------------------------------------------------------------
(* The server of main.py.  FastAPI validates the body against                *)
(* SimulationRequest before the handler runs and answers 422 itself; the     *)
(* handler's call of simulate_collision runs the lines of the engine above.  *)

\* the exceptions that `except ValueError` catches
ValueErrors == {MassError, RestitutionError}

\* particle_state_to_response
particle_state_to_response(state) ==
  [mass |-> state.mass, velocity |-> state.velocity,
   momentum |-> state.momentum, kinetic_energy |-> state.kinetic_energy]

\* collision_result_to_response
collision_result_to_response(r) ==
  [particle1_initial |-> particle_state_to_response(r.particle1_initial),
   particle2_initial |-> particle_state_to_response(r.particle2_initial),
   particle1_final |-> particle_state_to_response(r.particle1_final),
   particle2_final |-> particle_state_to_response(r.particle2_final),
   total_momentum_initial |-> r.total_momentum_initial,
   total_momentum_final |-> r.total_momentum_final,
   total_kinetic_energy_initial |-> r.total_kinetic_energy_initial,
   total_kinetic_energy_final |-> r.total_kinetic_energy_final,
   kinetic_energy_change |-> r.kinetic_energy_change,
   coefficient_of_restitution |-> r.coefficient_of_restitution]

\* the handler's lines 184-199 for the parsed request r: the call of
\* simulate_collision with the restitution the collision type selects
EndpointCall(p, r) ==
  /\ pc' = [pc EXCEPT ![p] = "L148"]
  /\ fn' = [fn EXCEPT ![p] = "simulate_collision"]
  /\ args' = [args EXCEPT ![p] =
       MkArgs(r.particle1.mass, r.particle1.velocity,
              r.particle2.mass, r.particle2.velocity, EndpointRestitution(r))]
  /\ UNCHANGED response

\* POST /simulate with the JSON body b: a body that fails the schema is
\* answered 422 and the handler does not run
PostSimulate(p, b) ==
  /\ pc[p] = "idle"
  /\ request' = [request EXCEPT ![p] = Request("POST /simulate", b, <<>>)]
  /\ IF ValidSimulationRequest(b)
     THEN EndpointCall(p, SimulationRequest(b))
     ELSE /\ pc' = [pc EXCEPT ![p] = "responded"]
          /\ response' = [response EXCEPT ![p] =
               Response(422, NoResult, NoPreset, <<>>, <<>>, "none")]
          /\ UNCHANGED <<fn, args>>
  /\ UNCHANGED <<frame, result, error, libm, presets>>

\* the handler's lines 202-207 once simulate_collision has ended: the
\* result converted, or the exception turned into a 400 or a 500
SimulateResponse(p) ==
  IF pc[p] = "returned"
  THEN Response(200, collision_result_to_response(result[p]), NoPreset,
                <<>>, <<>>, "none")
  ELSE IF error[p] \in ValueErrors
  THEN Response(400, NoResult, NoPreset, <<>>, <<>>, error[p])
  ELSE Response(500, NoResult, NoPreset, <<>>, <<>>, error[p])

Respond(p) ==
  /\ request[p].endpoint = "POST /simulate"
  /\ pc[p] \in {"returned", "raised"}
  /\ pc' = [pc EXCEPT ![p] = "responded"]
  /\ response' = [response EXCEPT ![p] = SimulateResponse(p)]
  /\ UNCHANGED <<fn, args, frame, result, error, libm, request, presets>>

\* GET /presets: return PRESET_SCENARIOS
GetPresets(p) ==
  /\ pc[p] = "idle"
  /\ pc' = [pc EXCEPT ![p] = "responded"]
  /\ request' = [request EXCEPT ![p] = Request("GET /presets", NoBody, <<>>)]
  /\ response' = [response EXCEPT ![p] =
       Response(200, NoResult, NoPreset, presets, <<>>, "none")]
  /\ UNCHANGED <<fn, args, frame, result, error, libm, presets>>

\* line 234 without the replacement of the spaces
PresetMatchesUnhyphenated(preset, preset_name) ==
  str_lower(preset.name) = str_lower(preset_name)

\* line 234: the comparison made for one preset
PresetMatches(preset, preset_name) ==
  str_replace(str_lower(preset.name), " ", "-") = str_lower(preset_name)

\* line 237: f"Preset '{preset_name}' not found"
NotFoundDetail(preset_name) ==
  <<"P", "r", "e", "s", "e", "t", " ", "'">> \o preset_name
    \o <<"'", " ", "n", "o", "t", " ", "f", "o", "u", "n", "d">>

\* lines 233-237: the loop returns at the first preset that matches
PresetResponse(list, preset_name) ==
  IF \E i \in 1..Len(list) : PresetMatches(list[i], preset_name)
  THEN Response(200, NoResult,
                list[CHOOSE i \in 1..Len(list) :
                       /\ PresetMatches(list[i], preset_name)
                       /\ \A j \in 1..(i - 1) : ~PresetMatches(list[j], preset_name)],
                <<>>, <<>>, "none")
  ELSE Response(404, NoResult, NoPreset, <<>>, NotFoundDetail(preset_name), "none")

\* GET /presets/{preset_name}
GetPresetByName(p, preset_name) ==
  /\ pc[p] = "idle"
  /\ pc' = [pc EXCEPT ![p] = "responded"]
  /\ request' = [request EXCEPT ![p] =
       Request("GET /presets/{preset_name}", NoBody, preset_name)]
  /\ response' = [response EXCEPT ![p] = PresetResponse(presets, preset_name)]
  /\ UNCHANGED <<fn, args, frame, result, error, libm, presets>>

\* the name of a preset as a client writes it in the path
Slug(name) == str_replace(str_lower(name), " ", "-")

\* the path parameters requested: each preset's slug, its slug in capitals
\* where that differs, its name as it stands, and names of no preset
PresetNames ==
  {Slug(PRESET_SCENARIOS[i].name) : i \in 1..Len(PRESET_SCENARIOS)}
    \cup {PRESET_SCENARIOS[i].name : i \in 1..Len(PRESET_SCENARIOS)}
    \cup {<<"H", "E", "A", "V", "Y", "-", "V", "S", "-", "L", "I", "G", "H", "T">>,
          <<"n", "o", "n", "e", "x", "i", "s", "t", "e", "n", "t", "-",
            "p", "r", "e", "s", "e", "t">>,
          <<"h", "e", "a", "v", "y">>}

\* the client has the response; the request is over
Close(p) ==
  /\ pc[p] = "responded"
  /\ pc' = [pc EXCEPT ![p] = "idle"]
  /\ fn' = [fn EXCEPT ![p] = "none"]
  /\ args' = [args EXCEPT ![p] = NoArgs]
  /\ frame' = [frame EXCEPT ![p] = EmptyFrame]
  /\ result' = [result EXCEPT ![p] = NoResult]
  /\ error' = [error EXCEPT ![p] = "none"]
  /\ libm' = IF \A q \in Procs \ {p} : pc[q] = "idle" THEN {} ELSE libm
  /\ request' = [request EXCEPT ![p] = NoRequest]
  /\ response' = [response EXCEPT ![p] = NoResponse]
  /\ UNCHANGED presets

\* one client, one request at a time
NextApi ==
  \/ \E b \in Bodies : PostSimulate(1, b)
  \/ InitialStates(1)
  \/ ComputeVelocities(1)
  \/ FinalStates(1)
  \/ Return(1)
  \/ Respond(1)
  \/ GetPresets(1)
  \/ \E n \in PresetNames : GetPresetByName(1, n)
  \/ Close(1)

SpecApi == Init /\ [][NextApi]_vars

----------------------------------------------------------------------------
(* The properties.  abs(x) < 1e-10 is the comparison the tests make.        *)

\* 1e-10
Tol == FDiv(One, FMul(FromInt(100000), FromInt(100000)))

\* abs(x - y) < 1e-10
Within(x, y) == FLt(FAbs(FSub(x, y)), Tol)

\* m1, m2 in (0, 2] and v1, v2 in [-20, 20]
InApiRange(a) ==
  /\ FLt(Zero, a.m1) /\ FLe(a.m1, MaxApiMass)
  /\ FLt(Zero, a.m2) /\ FLe(a.m2, MaxApiMass)
  /\ FLe(FAbs(a.v1), MaxApiSpeed)
  /\ FLe(FAbs(a.v2), MaxApiSpeed)

\* the range the fields of ParticleData document: masses 0.1 to 2.0,
\* velocities -20 to +20
InDocumentedRange(a) ==
  /\ FLe(Dec(1, 10), a.m1) /\ FLe(a.m1, MaxApiMass)
  /\ FLe(Dec(1, 10), a.m2) /\ FLe(a.m2, MaxApiMass)
  /\ FLe(FAbs(a.v1), MaxApiSpeed) /\ FLe(FAbs(a.v2), MaxApiSpeed)

\* invocation p of simulate_collision has returned its CollisionResult
SimReturned(p) == fn[p] = "simulate_collision" /\ pc[p] = "returned"

\* invocation p of calculate_collision_velocities has returned its tuple
VelReturned(p) == fn[p] = "calculate_collision_velocities" /\ pc[p] = "returned"

\* invocation p of simulate_collision has ended, by a return or an exception
SimEnded(p) == fn[p] = "simulate_collision" /\ pc[p] \in {"returned", "raised"}

\* invocation p of calculate_collision_velocities has ended
VelEnded(p) ==
  fn[p] = "calculate_collision_velocities" /\ pc[p] \in {"returned", "raised"}

\* C1, as stated: every CollisionResult that simulate_collision returns has
\* |total_momentum_initial - total_momentum_final| < 1e-10, whatever the
\* masses and velocities are.
C1_MomentumConservedEverywhere ==
  \A p \in Procs :
    SimReturned(p) =>
      Within(result[p].total_momentum_initial, result[p].total_momentum_final)

\* C1, amended: for masses in (0, 2] and velocities in [-20, 20] every
\* CollisionResult returned has
\* |total_momentum_initial - total_momentum_final| < 1e-10.
C1_MomentumConservedInApiRange ==
  \A p \in Procs :
    SimReturned(p) /\ InApiRange(args[p]) =>
      Within(result[p].total_momentum_initial, result[p].total_momentum_final)

\* a partly elastic collision of unequal masses in the range has returned,
\* and it changed the velocity of the first body
C1_Witness ==
  /\ SimReturned(1) /\ InApiRange(args[1])
  /\ args[1].e = Half
  /\ ~FEq(args[1].m1, args[1].m2)
  /\ ~FEq(result[1].particle1_final.velocity, args[1].v1)

\* C2, as stated: with e = 1 every CollisionResult returned has
\* |kinetic_energy_change| < 1e-10, whatever the masses and velocities are.
C2_ElasticEnergyConservedEverywhere ==
  \A p \in Procs :
    SimReturned(p) /\ FEq(args[p].e, One) =>
      FLt(FAbs(result[p].kinetic_energy_change), Tol)

\* C2, amended: with e = 1, masses in (0, 2] and velocities in [-20, 20]
\* every CollisionResult returned has |kinetic_energy_change| < 1e-10.
C2_ElasticEnergyConservedInApiRange ==
  \A p \in Procs :
    SimReturned(p) /\ FEq(args[p].e, One) /\ InApiRange(args[p]) =>
      FLt(FAbs(result[p].kinetic_energy_change), Tol)

\* an elastic collision in the range has returned in which the bodies
\* approached each other and exchanged energy
C2_Witness ==
  /\ SimReturned(1) /\ InApiRange(args[1])
  /\ FEq(args[1].e, One)
  /\ FLt(args[1].v2, args[1].v1)
  /\ ~FEq(result[1].particle1_final.kinetic_energy,
          result[1].particle1_initial.kinetic_energy)

\* C3, as stated: with 0 <= e < 1 the kinetic_energy_change returned is
\* strictly negative when v1 != v2 and equals 0 when v1 == v2.
C3_StrictEnergyLoss ==
  \A p \in Procs :
    SimReturned(p) /\ FLt(args[p].e, One) =>
      IF FEq(args[p].v1, args[p].v2)
      THEN FEq(result[p].kinetic_energy_change, Zero)
      ELSE FLt(result[p].kinetic_energy_change, Zero)

\* C3, amended: with 0 <= e < 1, masses in (0, 2] and velocities in
\* [-20, 20] the kinetic_energy_change returned is below 1e-10 (no energy is
\* gained beyond rounding), and it is within 1e-10 of 0 when v1 == v2.
C3_EnergyLossUpToRounding ==
  \A p \in Procs :
    SimReturned(p) /\ FLt(args[p].e, One) /\ InApiRange(args[p]) =>
      /\ FLt(result[p].kinetic_energy_change, Tol)
      /\ FEq(args[p].v1, args[p].v2) =>
           FLt(FAbs(result[p].kinetic_energy_change), Tol)

\* an inelastic collision in the range has returned with a kinetic energy
\* change above zero: the velocities differed by one unit in the last place
C3_Witness ==
  /\ SimReturned(1) /\ InApiRange(args[1])
  /\ FLt(args[1].e, One)
  /\ ~FEq(args[1].v1, args[1].v2)
  /\ FLt(Zero, result[1].kinetic_energy_change)

\* C4: calculate_collision_velocities(m1, v1, m2, v2, 0) returns two equal
\* velocities, both equal to (m1*v1 + m2*v2) / (m1 + m2).
C4_PerfectlyInelasticCommonVelocity ==
  \A p \in Procs :
    VelReturned(p) /\ FEq(args[p].e, Zero) =>
      /\ FEq(frame[p].v1_final, frame[p].v2_final)
      /\ FEq(frame[p].v1_final,
             FDiv(FAdd(FMul(args[p].m1, args[p].v1), FMul(args[p].m2, args[p].v2)),
                  FAdd(args[p].m1, args[p].m2)))

\* C5, as stated: calculate_collision_velocities(m, v1, m, v2, 1) returns
\* v1' within 1e-10 of v2 and v2' within 1e-10 of v1, whatever m, v1 and v2
\* are.
C5_EqualMassesSwapEverywhere ==
  \A p \in Procs :
    VelReturned(p) /\ FEq(args[p].e, One) /\ FEq(args[p].m1, args[p].m2) =>
      /\ Within(frame[p].v1_final, args[p].v2)
      /\ Within(frame[p].v2_final, args[p].v1)

\* C5, amended: for m in [0.1, 2] and v1, v2 in [-20, 20],
\* calculate_collision_velocities(m, v1, m, v2, 1) returns v1' within 1e-10
\* of v2 and v2' within 1e-10 of v1.
C5_EqualMassesSwapInDocumentedRange ==
  \A p \in Procs :
    /\ VelReturned(p) /\ FEq(args[p].e, One) /\ FEq(args[p].m1, args[p].m2)
    /\ InDocumentedRange(args[p])
    => /\ Within(frame[p].v1_final, args[p].v2)
       /\ Within(frame[p].v2_final, args[p].v1)

\* an elastic collision of equal masses with different velocities in the
\* range has returned its two velocities
C5_Witness ==
  /\ VelReturned(1) /\ InDocumentedRange(args[1])
  /\ FEq(args[1].e, One)
  /\ FEq(args[1].m1, args[1].m2)
  /\ ~Within(args[1].v1, args[1].v2)

\* C6: whenever m1 <= 0 or m2 <= 0, whatever v1, v2 and e are, both functions
\* end by raising ValueError("Masses must be positive") and return nothing.
C6_InvalidMassRaisesMassError ==
  \A p \in Procs :
    (SimEnded(p) \/ VelEnded(p)) /\ InvalidMass(args[p].m1, args[p].m2) =>
      /\ pc[p] = "raised"
      /\ error[p] = MassError

\* C7: whenever m1 > 0, m2 > 0 and e lies outside [0, 1], both functions end
\* by raising ValueError("Coefficient of restitution must be between 0 and
\* 1"), which is not the invalid-mass error; with e = 0 or e = 1 they do not
\* raise it.
C7_InvalidRestitutionRaisesRestitutionError ==
  /\ RestitutionError # MassError
  /\ \A p \in Procs :
       (SimEnded(p) \/ VelEnded(p)) /\ ~InvalidMass(args[p].m1, args[p].m2) =>
         IF InvalidRestitution(args[p].e)
         THEN pc[p] = "raised" /\ error[p] = RestitutionError
         ELSE error[p] # RestitutionError

\* C8: when simulate_collision is called with arguments that violate a
\* precondition, no ParticleState and no CollisionResult is ever constructed,
\* and the exception that reaches the caller is the precondition's own.
C8_PreconditionsCheckedBeforeAnyOutput ==
  \A p \in Procs :
    /\ fn[p] = "simulate_collision"
    /\ InvalidMass(args[p].m1, args[p].m2) \/ InvalidRestitution(args[p].e)
    => /\ frame[p].particle1_initial = NoState
       /\ frame[p].particle2_initial = NoState
       /\ result[p] = NoResult
       /\ pc[p] # "returned"
       /\ pc[p] = "raised" => error[p] \in {MassError, RestitutionError}

\* momentum = mass * velocity and kinetic_energy = 0.5 * mass * velocity^2
\* for the mass and velocity the state stores, velocity^2 being what pow gave
Derived(s) ==
  /\ s.momentum = FMul(s.mass, s.velocity)
  /\ \E t \in libm :
       /\ t[1] = s.velocity
       /\ t[2] \in PowOutcomes(s.velocity)
       /\ s.kinetic_energy = FMul(FMul(Half, s.mass), t[2])

\* C9: in every CollisionResult returned each of the four ParticleStates has
\* momentum = mass * velocity and kinetic_energy = 0.5 * mass * velocity^2,
\* the initial states store the input m and v, the final states the input
\* mass, each total is the sum of the two per-particle fields, and
\* kinetic_energy_change is the final total minus the initial total.
C9_ResultInternallyConsistent ==
  \A p \in Procs :
    SimReturned(p) =>
      /\ Derived(result[p].particle1_initial)
      /\ Derived(result[p].particle2_initial)
      /\ Derived(result[p].particle1_final)
      /\ Derived(result[p].particle2_final)
      /\ result[p].particle1_initial.mass = args[p].m1
      /\ result[p].particle1_initial.velocity = args[p].v1
      /\ result[p].particle2_initial.mass = args[p].m2
      /\ result[p].particle2_initial.velocity = args[p].v2
      /\ result[p].particle1_final.mass = args[p].m1
      /\ result[p].particle2_final.mass = args[p].m2
      /\ result[p].total_momentum_initial =
           FAdd(result[p].particle1_initial.momentum,
                result[p].particle2_initial.momentum)
      /\ result[p].total_momentum_final =
           FAdd(result[p].particle1_final.momentum,
                result[p].particle2_final.momentum)
      /\ result[p].total_kinetic_energy_initial =
           FAdd(result[p].particle1_initial.kinetic_energy,
                result[p].particle2_initial.kinetic_energy)
      /\ result[p].total_kinetic_energy_final =
           FAdd(result[p].particle1_final.kinetic_energy,
                result[p].particle2_final.kinetic_energy)
      /\ result[p].kinetic_energy_change =
           FSub(result[p].total_kinetic_energy_final,
                result[p].total_kinetic_energy_initial)

\* a CollisionResult has been returned for two moving bodies whose
\* velocities the collision changed
C9_Witness ==
  /\ SimReturned(1)
  /\ ~FIsZero(args[1].v1) /\ ~FIsZero(args[1].v2)
  /\ ~FEq(result[1].particle1_final.velocity, args[1].v1)
  /\ ~FEq(result[1].particle2_final.velocity, args[1].v2)
  /\ ~FIsZero(result[1].kinetic_energy_change)

\* C10: two invocations of simulate_collision with the same arguments end
\* the same way, with equal results or the same error, however their lines
\* and those of other invocations interleave.
C10_SameArgumentsSameOutcome ==
  \A p, q \in Procs :
    SimEnded(p) /\ SimEnded(q) /\ args[p] = args[q] =>
      /\ pc[p] = pc[q]
      /\ result[p] = result[q]
      /\ error[p] = error[q]

\* two interleaved invocations with the same arguments have both returned
C10_Witness ==
  /\ SimReturned(1) /\ SimReturned(2)
  /\ args[1] = args[2]
  /\ result[1] # NoResult

C12_MassBelowDocumentedRangeRejected ==
  \A p \in Procs :
    /\ request[p].endpoint = "POST /simulate"
    /\ \E key \in {"particle1", "particle2"} :
         /\ key \in request[p].body.given
         /\ "mass" \in request[p].body[key].given
         /\ \/ FLt(request[p].body[key].mass, Dec(1, 10))
            \/ FLt(FromInt(2), request[p].body[key].mass)
    => /\ pc[p] = "responded" /\ response[p].status = 422
       /\ fn[p] = "none"

\* C13: in POST /simulate the restitution handed to the engine, and
\* reported back as coefficient_of_restitution, is 1.0 when collision_type
\* is "elastic" in any mix of capitals and small letters, 0.0 when it is
\* "inelastic" in any mix, and otherwise the request's
\* coefficient_of_restitution (1.0 when that is omitted); an omitted
\* collision_type counts as "elastic".
C13_RestitutionFollowsCollisionType ==
  \A p \in Procs :
    request[p].endpoint = "POST /simulate" /\ fn[p] = "simulate_collision" =>
      LET b == request[p].body
          type == IF "collision_type" \in b.given THEN b.collision_type
                  ELSE <<"e", "l", "a", "s", "t", "i", "c">>
          Spells(word) ==
            /\ Len(type) = Len(word)
            /\ \A i \in 1..Len(word) :
                 \/ type[i] = word[i]
                 \/ \E k \in 1..Len(Upper) : Upper[k] = type[i] /\ Lower[k] = word[i]
          expected ==
            IF Spells(<<"e", "l", "a", "s", "t", "i", "c">>) THEN FromInt(1)
            ELSE IF Spells(<<"i", "n", "e", "l", "a", "s", "t", "i", "c">>) THEN FromInt(0)
            ELSE IF "coefficient_of_restitution" \in b.given
            THEN b.coefficient_of_restitution
            ELSE FromInt(1)
      IN /\ args[p].e = expected
         /\ pc[p] = "returned" => result[p].coefficient_of_restitution = expected
         /\ pc[p] = "responded" =>
              response[p].simulation.coefficient_of_restitution = expected

\* a request of type "Inelastic" that gave the coefficient 1.0 has been
\* answered with the coefficient 0.0
C13_Witness ==
  /\ request[1].endpoint = "POST /simulate"
  /\ request[1].body.collision_type = <<"I", "n", "e", "l", "a", "s", "t", "i", "c">>
  /\ request[1].body.coefficient_of_restitution = One
  /\ pc[1] = "responded" /\ response[1].status = 200
  /\ response[1].simulation.coefficient_of_restitution = Zero

\* C14: GET /presets/{preset_name} returns the first preset whose name,
\* lower-cased and with every space replaced by a hyphen, equals the
\* lower-cased preset_name, and answers 404 with a detail containing
\* "not found" when there is none; each of the five presets is returned for
\* its own slug; PRESET_SCENARIOS never changes and GET /presets returns all
\* of it.
C14_PresetLookupBySlug ==
  /\ presets = PRESET_SCENARIOS
  /\ Len(presets) = 5
  /\ \A p \in Procs :
       /\ request[p].endpoint = "GET /presets" =>
            response[p].status = 200 /\ response[p].presets = PRESET_SCENARIOS
       /\ request[p].endpoint = "GET /presets/{preset_name}" =>
            LET name == request[p].preset_name
                Hit(i) ==
                  str_replace(str_lower(PRESET_SCENARIOS[i].name), " ", "-")
                    = str_lower(name)
            IN /\ \A i \in 1..5 :
                    Hit(i) /\ (\A j \in 1..(i - 1) : ~Hit(j)) =>
                      /\ response[p].status = 200
                      /\ response[p].preset = PRESET_SCENARIOS[i]
               /\ (\A i \in 1..5 : ~Hit(i)) =>
                    /\ response[p].status = 404
                    /\ response[p].preset = NoPreset
                    /\ str_contains(response[p].detail,
                                    <<"n", "o", "t", " ", "f", "o", "u", "n", "d">>)
               /\ \A i \in 1..5 :
                    name = str_replace(str_lower(PRESET_SCENARIOS[i].name), " ", "-") =>
                      /\ response[p].status = 200
                      /\ response[p].preset = PRESET_SCENARIOS[i]

\* the first preset has been returned for its slug, equal-mass-(en dash)-head-on
C14_Witness ==
  /\ request[1].endpoint = "GET /presets/{preset_name}"
  /\ request[1].preset_name =
       <<"e", "q", "u", "a", "l", "-", "m", "a", "s", "s", "-", "EN DASH", "-",
         "h", "e", "a", "d", "-", "o", "n">>
  /\ response[1].status = 200
  /\ response[1].preset = PRESET_SCENARIOS[1]

\* C15, as stated: for all m1, m2 > 0, e in [0, 1] and v1 > v2, a stationary
\* second body included, the CollisionResult of simulate_collision has
\* particle1_final.velocity < particle1_initial.velocity and
\* particle2_final.velocity > particle2_initial.velocity.
C15_FasterSlowsSlowerSpeedsUpStrictly ==
  \A p \in Procs :
    SimReturned(p) /\ FLt(args[p].v2, args[p].v1) =>
      /\ FLt(result[p].particle1_final.velocity,
             result[p].particle1_initial.velocity)
      /\ FLt(result[p].particle2_initial.velocity,
             result[p].particle2_final.velocity)

\* C15, amended: for m1, m2 in [0.1, 2], v1, v2 in [-20, 20], e in [0, 1] and
\* v1 > v2, the first body ends less than 1e-10 above its initial velocity
\* and the second less than 1e-10 below its own; when v1 - v2 >= 1e-10, a
\* stationary second body included, particle1_final.velocity <
\* particle1_initial.velocity and particle2_final.velocity >
\* particle2_initial.velocity.
C15_FasterSlowsSlowerSpeedsUpBeyondRounding ==
  \A p \in Procs :
    /\ SimReturned(p) /\ InDocumentedRange(args[p])
    /\ FLt(args[p].v2, args[p].v1)
    => /\ FLt(FSub(result[p].particle1_final.velocity,
                    result[p].particle1_initial.velocity), Tol)
       /\ FLt(FSub(result[p].particle2_initial.velocity,
                    result[p].particle2_final.velocity), Tol)
       /\ FLe(Tol, FSub(args[p].v1, args[p].v2)) =>
            /\ FLt(result[p].particle1_final.velocity,
                   result[p].particle1_initial.velocity)
            /\ FLt(result[p].particle2_initial.velocity,
                   result[p].particle2_final.velocity)

\* a moving body has hit a stationary one of another mass, partly
\* elastically, and the result shows it slower and the other one moving
C15_Witness ==
  /\ SimReturned(1) /\ InDocumentedRange(args[1])
  /\ FLt(Zero, args[1].v1) /\ FIsZero(args[1].v2)
  /\ ~FEq(args[1].m1, args[1].m2)
  /\ args[1].e = Half
  /\ FLt(result[1].particle1_final.velocity, args[1].v1)
  /\ FLt(Zero, result[1].particle2_final.velocity)

\* C16, as stated: for all m1, m2 > 0, all v1, v2 and e in [0, 1] the
\* velocities calculate_collision_velocities returns satisfy v2' - v1' =
\* e * (v1 - v2) exactly, and v1' <= v2' when v1 > v2.
C16_RestitutionRelationExact ==
  \A p \in Procs :
    VelReturned(p) =>
      /\ FEq(FSub(frame[p].v2_final, frame[p].v1_final),
             FMul(args[p].e, FSub(args[p].v1, args[p].v2)))
      /\ FLt(args[p].v2, args[p].v1) =>
           FLe(frame[p].v1_final, frame[p].v2_final)

\* C16, amended: for m1, m2 in [0.1, 2], v1, v2 in [-20, 20] and e in [0, 1]
\* the velocities returned satisfy |(v2' - v1') - e * (v1 - v2)| < 1e-10, and
\* v1' <= v2' when v1 > v2.
C16_RestitutionRelationUpToRounding ==
  \A p \in Procs :
    VelReturned(p) /\ InDocumentedRange(args[p]) =>
      /\ Within(FSub(frame[p].v2_final, frame[p].v1_final),
                FMul(args[p].e, FSub(args[p].v1, args[p].v2)))
      /\ FLt(args[p].v2, args[p].v1) =>
           FLe(frame[p].v1_final, frame[p].v2_final)

\* approaching bodies of different masses in the range have collided partly
\* elastically and separate, the relation holding only up to rounding
C16_Witness ==
  /\ VelReturned(1) /\ InDocumentedRange(args[1])
  /\ args[1].e = Half
  /\ ~FEq(args[1].m1, args[1].m2)
  /\ FLe(Tol, FSub(args[1].v1, args[1].v2))
  /\ FLt(frame[1].v1_final, frame[1].v2_final)
  /\ ~FEq(FSub(frame[1].v2_final, frame[1].v1_final),
          FMul(args[1].e, FSub(args[1].v1, args[1].v2)))

\* C17: for every preset of PRESET_SCENARIOS, a POST /simulate of the
\* preset's own particle1, particle2, coefficient_of_restitution and
\* collision_type is answered 200, and the coefficient_of_restitution of the
\* response equals the preset's.
C17_PresetSimulatesWithItsOwnRestitution ==
  \A p \in Procs :
    \A i \in 1..Len(PRESET_SCENARIOS) :
      /\ request[p].endpoint = "POST /simulate"
      /\ request[p].body = PresetBody(PRESET_SCENARIOS[i])
      /\ pc[p] = "responded"
      => /\ response[p].status = 200
         /\ response[p].simulation.coefficient_of_restitution =
              PRESET_SCENARIOS[i].coefficient_of_restitution

====
